---- MODULE Spec2Model ----
(***************************************************************************)
(* A model of the gesture recognition engine of gest                      *)
(* (src/src/gestures.rs, src/src/sequence_step.rs, src/src/config.rs).    *)
(*                                                                         *)
(* The engine is a single-writer state machine: the event loop feeds one   *)
(* frame (a map slot -> position) per synchronization event to             *)
(* update_state, which builds performed_sequence and invokes the matcher.  *)
(* Floating point values are kept as exact rationals; a HashMap iteration  *)
(* order is an input of the call (the standard library randomises it per   *)
(* map instance).                                                          *)
(***************************************************************************)
EXTENDS Integers, Sequences, FiniteSets, TLC

VARIABLES
    config,                    \* GesturesManager.config (the loaded catalog)
    active_window,             \* the shared Window value: [class, title]
    previous_state,            \* positions of fingers in the previous update
    touch_down_state,          \* reference positions of the ellipse test
    initial_touch_down_state,  \* first positions of every slot since the last reset
    performed_sequence,        \* Seq of performed steps
    repeat_mode,               \* mode of the last successful match
    slots_outside_ellipse,     \* slots that left the ellipse since the last slide match
    direction,                 \* remembered direction
    invocations,               \* observation: the matcher invocations of the last update_state call
    panicked,                  \* update_state hit a panic (the process is gone)
    frames,                    \* observation: non-empty frames since the last empty frame
    tap_phase,                 \* observation: progress of the frames through the tap scenario
    config_file,               \* the configuration file the catalog of the engine was loaded from
    move_threshold,            \* options.move_threshold of the catalog main loaded at startup
    touchpad_size,             \* width and height of the touchpad main read from the device
    shared,                    \* the handle the config watcher swaps: the file it loaded and the
                               \* iteration order of the file's application_gestures map
    reloads,                   \* the watcher thread: whether its loop is still running, and
                               \* observation: whether a reload failed so far, whether the
                               \* last parse of the watcher (or of main) succeeded
    pc,                        \* position of the event loop inside update_state
    pending,                   \* the frame being processed and what the call observed so far
    slot_state,                \* main's state map: slot -> the X and Y received, each optional
    current_slot,              \* main's current_slot
    contacts                   \* observation: the slots that have a tracking id, and the ones
                               \* that received an X, a Y since that id was assigned

engine_vars == <<previous_state, touch_down_state, initial_touch_down_state,
                 performed_sequence, repeat_mode, slots_outside_ellipse, direction,
                 invocations, panicked>>

watcher_vars == <<config_file, move_threshold, touchpad_size, shared, reloads>>

event_vars == <<slot_state, current_slot, contacts>>

vars == <<config, active_window, engine_vars, frames, tap_phase, watcher_vars, pc, pending,
          event_vars>>

-----------------------------------------------------------------------------
(* Bounds of the model *)

\* longest performed_sequence a call may leave behind
MaxSeqLen == 4

\* most non-empty frames between two empty frames
MaxFrames == 3

\* most non-empty frames between two empty frames while two fingers move along a line
MaxMoveFrames == 5

\* most frames while one finger lands anywhere on the touchpad
MaxEdgeFrames == 1

\* most frames while one finger slides inside the touchpad
MaxSlideFrames == 2

\* most frames while single fingers land one after the other
MaxLandFrames == 3

\* most frames while three fingers rest and lift
MaxLiftFrames == 3

\* most non-empty frames between two empty frames while the event loop reads events
MaxEventFrames == 2

\* slot ids the event source uses
Slots == {1, 2}

-----------------------------------------------------------------------------
(* Rationals stand for the f32 values of the code *)

RECURSIVE GCD(_, _)
GCD(a, b) == IF b = 0 THEN a ELSE GCD(b, a % b)

Rat(n, d) == LET g == GCD(n, d) IN [n |-> n \div g, d |-> d \div g]

RatLess(a, b) == a.n * b.d < b.n * a.d

RatZero == [n |-> 0, d |-> 1]

Some(r) == [some |-> TRUE, n |-> r.n, d |-> r.d]

NoDistance == [some |-> FALSE, n |-> 0, d |-> 1]

-----------------------------------------------------------------------------
(* config.rs: RepeatMode bitflags, Direction, Edge *)

RM_None == 0
RM_Tap == 1
RM_Slide == 2

\* RepeatMode::insert, bitwise OR of two flag sets
RM_Insert(a, b) ==
    (IF a % 2 = 1 \/ b % 2 = 1 THEN 1 ELSE 0)
    + (IF (a \div 2) % 2 = 1 \/ (b \div 2) % 2 = 1 THEN 2 ELSE 0)

Directions == {"Up", "Down", "Left", "Right"}

Edges == {"Top", "Bottom", "Left", "Right"}

-----------------------------------------------------------------------------
(* The touchpad and the frames the event source delivers *)

\* the touchpad of the device, in device units (width, height)
SquareTouchpad == [x |-> 5, y |-> 5]

\* a touchpad twice as wide as high
WideTouchpad == [x |-> 10, y |-> 5]

Pos(x, y) == [x |-> x, y |-> y]

\* the sample positions each slot reports
SlotPoints ==
    [s \in Slots |-> IF s = 1 THEN { Pos(2, 0), Pos(2, 2), Pos(4, 2) }
                               ELSE { Pos(2, 2), Pos(3, 2) }]

Points == UNION { SlotPoints[s] : s \in Slots }

EmptyState == [s \in {} |-> Pos(0, 0)]

\* every frame: a map from a set of slots to positions, the empty map included
Frames == { f \in UNION { [S -> Points] : S \in SUBSET Slots } : \A s \in DOMAIN f : f[s] \in SlotPoints[s] }

\* the iteration orders of a HashMap with key set S
Orders(S) == { o \in [1..Cardinality(S) -> S] : \A i, j \in 1..Cardinality(S) : o[i] = o[j] => i = j }

Range(seq) == { seq[i] : i \in 1..Len(seq) }

Put(f, k, v) == [s \in (DOMAIN f) \cup {k} |-> IF s = k THEN v ELSE f[s]]

AbsDiff(a, b) == IF a >= b THEN a - b ELSE b - a

\* Position::distance, component-wise absolute difference
PositionDistance(p, q) == Pos(AbsDiff(p.x, q.x), AbsDiff(p.y, q.y))

-----------------------------------------------------------------------------
(* sequence_step.rs: defined (catalog) and performed (runtime) steps *)

DMove(fingers, dir, dist) ==
    [type |-> "Move", fingers |-> fingers, direction |-> dir, distance |-> dist, edge |-> "None"]

DTouchDown(fingers) ==
    [type |-> "TouchDown", fingers |-> fingers, direction |-> "None", distance |-> NoDistance, edge |-> "None"]

DTouchUp(fingers) ==
    [type |-> "TouchUp", fingers |-> fingers, direction |-> "None", distance |-> NoDistance, edge |-> "None"]

DMoveEdge(fingers, edge, dir, dist) ==
    [type |-> "MoveEdge", fingers |-> fingers, direction |-> dir, distance |-> dist, edge |-> edge]

PMove(slots, dir, dist) ==
    [type |-> "Move", slots |-> slots, direction |-> dir, distance |-> dist, edge |-> "None"]

PTouchUp(slots) ==
    [type |-> "TouchUp", slots |-> slots, direction |-> "None", distance |-> RatZero, edge |-> "None"]

PTouchDown(slots) ==
    [type |-> "TouchDown", slots |-> slots, direction |-> "None", distance |-> RatZero, edge |-> "None"]

\* gestures.rs never assigns the distance of an edge move; it stays at zero
PMoveEdge(slots, edge, dir) ==
    [type |-> "MoveEdge", slots |-> slots, direction |-> dir, distance |-> RatZero, edge |-> edge]

\* StepEq with the distance test of a Move turned strict (dst <= d rejects)
StepEq_StrictDistance(d, p) ==
    CASE d.type = "Move" /\ p.type = "Move" ->
            /\ ~(d.fingers # Cardinality(p.slots) \/ d.direction # p.direction)
            /\ ~(d.distance.some /\ ~RatLess(d.distance, p.distance))
      [] d.type = "TouchUp" /\ p.type = "TouchUp" ->
            ~(d.fingers # Cardinality(p.slots))
      [] d.type = "TouchDown" /\ p.type = "TouchDown" ->
            ~(d.fingers # Cardinality(p.slots))
      [] d.type = "MoveEdge" /\ p.type = "MoveEdge" ->
            /\ ~(d.fingers # Cardinality(p.slots) \/ d.edge # p.edge \/ d.direction # p.direction)
            /\ ~(d.distance.some /\ RatLess(p.distance, d.distance))
      [] OTHER -> FALSE

\* impl PartialEq<PerformedSequenceStep> for DefinedSequenceStep
StepEq(d, p) ==
    CASE d.type = "Move" /\ p.type = "Move" ->
            /\ ~(d.fingers # Cardinality(p.slots) \/ d.direction # p.direction)
            /\ ~(d.distance.some /\ RatLess(p.distance, d.distance))
      [] d.type = "TouchUp" /\ p.type = "TouchUp" ->
            ~(d.fingers # Cardinality(p.slots))
      [] d.type = "TouchDown" /\ p.type = "TouchDown" ->
            ~(d.fingers # Cardinality(p.slots))
      [] d.type = "MoveEdge" /\ p.type = "MoveEdge" ->
            /\ ~(d.fingers # Cardinality(p.slots) \/ d.edge # p.edge \/ d.direction # p.direction)
            /\ ~(d.distance.some /\ RatLess(p.distance, d.distance))
      [] OTHER -> FALSE

-----------------------------------------------------------------------------
(* config.rs: the catalog *)

Gesture(name, sequence, edge, rm) ==
    [name |-> name, sequence |-> sequence, edge |-> edge, repeat_mode |-> rm,
     command |-> name]

\* Options.distance: the named distances of the configuration
Distances == [name \in {"short"} |-> Rat(1, 5)]

\* Options with the defaults of config.rs, except move_threshold (0.2 here)
Options(run_all) ==
    [move_threshold |-> Rat(1, 5),
     edge |-> [threshold |-> Rat(1, 20), sensitivity |-> Rat(1, 2)],
     run_all_matches |-> run_all,
     distance |-> Distances]

Fifth == Some(Rat(1, 5))

TwoFifths == Some(Rat(2, 5))

GlobalGestures ==
    << Gesture("far", <<DMove(1, "Left", TwoFifths)>>, "None", RM_None),
       Gesture("near", <<DMove(1, "Left", Fifth)>>, "None", RM_None),
       Gesture("left", <<DMove(1, "Left", NoDistance)>>, "None", RM_None),
       Gesture("right_ts", <<DMove(1, "Right", NoDistance)>>, "None", RM_Insert(RM_Tap, RM_Slide)),
       Gesture("right_edge", <<DMove(1, "Right", NoDistance)>>, "Top", RM_Slide),
       Gesture("edge_none", <<DMoveEdge(1, "Top", "Down", NoDistance)>>, "Top", RM_None),
       Gesture("edge_step", <<DMoveEdge(1, "Top", "Down", NoDistance)>>, "Top", RM_Slide),
       Gesture("edge_left", <<DMoveEdge(1, "Left", "Down", NoDistance)>>, "Left", RM_Slide),
       Gesture("up_slide", <<DMove(1, "Up", NoDistance)>>, "None", RM_Slide),
       Gesture("tap2", <<DTouchDown(2), DTouchUp(2)>>, "None", RM_Tap),
       Gesture("two_left", <<DMove(2, "Left", Fifth)>>, "None", RM_None) >>

\* a regex is modelled by the set of strings it matches
ClassBindings ==
    << [regex |-> {"term"}, gestures |-> <<Gesture("cls_left", <<DMove(1, "Left", NoDistance)>>, "None", RM_None)>>] >>

TitleBindings ==
    << [regex |-> {"doc"}, gestures |-> <<Gesture("ttl_left", <<DMove(1, "Left", NoDistance)>>, "None", RM_None)>>] >>

Catalog(run_all) ==
    [options |-> Options(run_all),
     gestures |-> GlobalGestures,
     application_gestures |-> [by_class |-> ClassBindings, by_title |-> TitleBindings]]

Catalogs == { Catalog(FALSE), Catalog(TRUE) }

Windows == { [class |-> "", title |-> ""], [class |-> "term", title |-> "doc"] }

\* Regex::is_match
IsMatch(regex, text) == text \in regex

-----------------------------------------------------------------------------
(* config.rs, sequence_step.rs: the raw configuration and its conversion *)

\* Option<Distance> of a raw step: absent, Fixed(f32) or Variable(name)
DAbsent == [kind |-> "None", n |-> 0, d |-> 1, name |-> ""]

DFixed(r) == [kind |-> "Fixed", n |-> r.n, d |-> r.d, name |-> ""]

DVariable(name) == [kind |-> "Variable", n |-> 0, d |-> 1, name |-> name]

\* DefinedSequenceStep::from_raw
DefinedSequenceStep_from_raw(raw, distances) ==
    LET distance == CASE raw.distance.kind = "Variable" ->
                            IF raw.distance.name \in DOMAIN distances
                            THEN Some(distances[raw.distance.name])
                            ELSE NoDistance
                      [] raw.distance.kind = "Fixed" -> Some([n |-> raw.distance.n, d |-> raw.distance.d])
                      [] OTHER -> NoDistance
    IN CASE raw.type = "TouchDown" -> DTouchDown(raw.fingers)
         [] raw.type = "TouchUp" -> DTouchUp(raw.fingers)
         [] raw.type = "Move" -> DMove(raw.fingers, raw.direction, distance)
         [] raw.type = "MoveEdge" -> DMoveEdge(raw.fingers, raw.edge, raw.direction, distance)

\* Gesture::from_raw
Gesture_from_raw(raw, distances) ==
    [name |-> raw.name,
     sequence |-> [i \in 1..Len(raw.sequence) |-> DefinedSequenceStep_from_raw(raw.sequence[i], distances)],
     edge |-> raw.edge,
     repeat_mode |-> raw.repeat_mode,
     command |-> raw.command]

Gestures_from_raw(raws, distances) ==
    [i \in 1..Len(raws) |-> Gesture_from_raw(raws[i], distances)]

\* the strings a window class or title takes in the model
Texts == {"", "term", "doc"}

\* Regex::new: a pattern is a sequence of tokens; "(" alone is no valid pattern,
\* the empty pattern matches every text, a one-word pattern the texts holding the word
Regex_new(pattern) ==
    [ok |-> "(" \notin Range(pattern),
     regex |-> { t \in Texts : pattern = <<>> \/ (t # "" /\ pattern = <<t>>) }]

\* str::strip_prefix
strip_prefix(str, prefix) ==
    IF str # <<>> /\ Head(str) = prefix
    THEN [some |-> TRUE, rest |-> Tail(str)]
    ELSE [some |-> FALSE, rest |-> <<>>]

\* str::split_once(',')
split_once(str) ==
    IF \E i \in 1..Len(str) : str[i] = ","
    THEN LET i == CHOOSE k \in 1..Len(str) : str[k] = "," /\ \A j \in 1..(k - 1) : str[j] # ","
         IN [some |-> TRUE, first |-> SubSeq(str, 1, i - 1), second |-> SubSeq(str, i + 1, Len(str))]
    ELSE [some |-> FALSE, first |-> <<>>, second |-> <<>>]

\* one part of a key "a,b": class:<regex> or title:<regex>, anything else is an error
KeyPart(part) ==
    LET class == strip_prefix(part, "class:")
        title == strip_prefix(part, "title:")
    IN IF class.some THEN [ok |-> Regex_new(class.rest).ok, kind |-> "class", regex |-> Regex_new(class.rest).regex]
       ELSE IF title.some THEN [ok |-> Regex_new(title.rest).ok, kind |-> "title", regex |-> Regex_new(title.rest).regex]
       ELSE [ok |-> FALSE, kind |-> "none", regex |-> {}]

Binding(regex, gestures) == [regex |-> regex, gestures |-> gestures]

\* Config::from_raw, the body of the loop over application_gestures_raw
ApplicationEntry(acc, entry, distances) ==
    LET gestures == Gestures_from_raw(entry.gestures, distances)
        app_name == entry.key
        pair == split_once(app_name)
        title == strip_prefix(app_name, "title:")
        class == strip_prefix(app_name, "class:")
    IN IF pair.some
       THEN LET p1 == KeyPart(pair.first)
                p2 == KeyPart(pair.second)
            IN IF ~p1.ok \/ ~p2.ok THEN [acc EXCEPT !.ok = FALSE]
               ELSE LET class_part == IF p2.kind = "class" THEN <<p2>> ELSE IF p1.kind = "class" THEN <<p1>> ELSE <<>>
                        title_part == IF p2.kind = "title" THEN <<p2>> ELSE IF p1.kind = "title" THEN <<p1>> ELSE <<>>
                    IN [acc EXCEPT
                          !.by_class = IF class_part # <<>> THEN Append(@, Binding(class_part[1].regex, gestures)) ELSE @,
                          !.by_title = IF title_part # <<>> THEN Append(@, Binding(title_part[1].regex, gestures)) ELSE @]
       ELSE IF title.some
       THEN IF ~Regex_new(title.rest).ok THEN [acc EXCEPT !.ok = FALSE]
            ELSE [acc EXCEPT !.by_title = Append(@, Binding(Regex_new(title.rest).regex, gestures))]
       ELSE IF class.some
       THEN IF ~Regex_new(class.rest).ok THEN [acc EXCEPT !.ok = FALSE]
            ELSE [acc EXCEPT !.by_title = Append(@, Binding(Regex_new(class.rest).regex, gestures))]
       ELSE IF ~Regex_new(app_name).ok THEN [acc EXCEPT !.ok = FALSE]
            ELSE [acc EXCEPT !.by_class = Append(@, Binding(Regex_new(app_name).regex, gestures))]

\* for (app_name, gestures) in application_gestures_raw: order is the iteration
\* order of the HashMap; an error returns at once
RECURSIVE ApplicationLoop(_, _, _, _, _)
ApplicationLoop(acc, entries, distances, order, i) ==
    IF i > Len(order) \/ ~acc.ok THEN acc
    ELSE ApplicationLoop(ApplicationEntry(acc, entries[order[i]], distances), entries, distances, order, i + 1)

\* Config::from_raw for a file without imports
Config_from_raw(config_raw, options, order) ==
    LET gestures == Gestures_from_raw(config_raw.gestures, options.distance)
        apps == ApplicationLoop([ok |-> TRUE, by_title |-> <<>>, by_class |-> <<>>],
                                config_raw.application_gestures, options.distance, order, 1)
    IN [ok |-> apps.ok,
        config |-> [options |-> options,
                    gestures |-> gestures,
                    application_gestures |-> [by_class |-> apps.by_class, by_title |-> apps.by_title]]]

\* Options::default(), the derived Default
DefaultOptions ==
    [move_threshold |-> RatZero,
     edge |-> [threshold |-> RatZero, sensitivity |-> RatZero],
     run_all_matches |-> FALSE,
     distance |-> [name \in {} |-> RatZero]]

\* Config::parse_from_file: order is the iteration order of the application_gestures map
parse_from_file(config_raw, order) ==
    LET options == IF config_raw.options.some THEN config_raw.options.value ELSE DefaultOptions
    IN Config_from_raw(config_raw, options, order)

\* the iteration orders of the application_gestures map of a raw configuration
KeyOrders(config_raw) == Orders(1..Len(config_raw.application_gestures))

\* the raw step that declares a defined step with a fixed distance
RawStep(step) ==
    [type |-> step.type, fingers |-> step.fingers, direction |-> step.direction, edge |-> step.edge,
     distance |-> IF step.distance.some THEN DFixed(step.distance) ELSE DAbsent]

\* the raw gesture that declares a gesture
RawGesture(gesture) ==
    [name |-> gesture.name,
     sequence |-> [i \in 1..Len(gesture.sequence) |-> RawStep(gesture.sequence[i])],
     edge |-> gesture.edge, repeat_mode |-> gesture.repeat_mode, command |-> gesture.command]

RawGestures(gestures) == [i \in 1..Len(gestures) |-> RawGesture(gestures[i])]

\* one entry of application_gestures: a key and its gestures
RawEntry(key, gestures) == [key |-> key, gestures |-> gestures]

\* ConfigRaw; application_gestures lists the entries in the order of the file
ConfigRaw(options, gestures, application_gestures) ==
    [import |-> <<>>,
     options |-> [some |-> TRUE, value |-> options],
     gestures |-> gestures,
     application_gestures |-> application_gestures]

\* the configuration file that declares Catalog(run_all)
StartupFile(run_all) ==
    ConfigRaw(Options(run_all), RawGestures(GlobalGestures),
              << RawEntry(<<"term">>, RawGestures(ClassBindings[1].gestures)),
                 RawEntry(<<"title:", "doc">>, RawGestures(TitleBindings[1].gestures)) >>)

\* the files main can start on
StartupFiles == { "startup", "startup_all" }

\* the startup file with another options.edge.threshold
EdgeFile(threshold) ==
    ConfigRaw([Options(FALSE) EXCEPT !.edge.threshold = threshold], RawGestures(GlobalGestures),
              StartupFile(FALSE).application_gestures)

\* startup files with an edge band of 0.25, 1 and 2 device units
EdgeFiles == { "startup", "edge_fifth", "edge_two_fifths" }

\* a one-finger Left move, declared with the given distance
RawLeft(name, distance) ==
    [name |-> name,
     sequence |-> << [type |-> "Move", fingers |-> 1, direction |-> "Left", edge |-> "None",
                      distance |-> distance] >>,
     edge |-> "None", repeat_mode |-> RM_None, command |-> name]

\* a file with one class: key and one title: key
ClassTitleFile ==
    ConfigRaw(Options(FALSE), << RawLeft("short_left", DVariable("short")) >>,
              << RawEntry(<<"class:", "term">>, << RawLeft("by_class_key", DAbsent) >>),
                 RawEntry(<<"title:", "doc">>, << RawLeft("by_title_key", DAbsent) >>) >>)

\* a file with a bare key and a "class:..,title:.." key, and a move_threshold of 0.4
BareKeyFile ==
    ConfigRaw([Options(FALSE) EXCEPT !.move_threshold = Rat(2, 5)],
              << RawLeft("any_left", DVariable("long")) >>,
              << RawEntry(<<"term">>, << RawLeft("by_bare_key", DAbsent) >>),
                 RawEntry(<<"class:", "term", ",", "title:", "doc">>, << RawLeft("by_pair_key", DAbsent) >>) >>)

\* a file whose key "term,doc" names neither class: nor title:
BrokenFile ==
    ConfigRaw(Options(FALSE), <<>>,
              << RawEntry(<<"term", ",", "doc">>, << RawLeft("by_broken_key", DAbsent) >>) >>)

\* the contents the configuration file takes while the watcher runs
LoadFiles == { "class_title", "bare_key", "broken" }

\* serde_yaml::from_str of the contents of a file
File(name) ==
    CASE name = "startup" -> StartupFile(FALSE)
      [] name = "startup_all" -> StartupFile(TRUE)
      [] name = "class_title" -> ClassTitleFile
      [] name = "bare_key" -> BareKeyFile
      [] name = "broken" -> BrokenFile
      [] name = "edge_fifth" -> EdgeFile(Rat(1, 5))
      [] name = "edge_two_fifths" -> EdgeFile(Rat(2, 5))

\* the result of parse_from_file behind a handle value
Load(handle) == parse_from_file(File(handle.file), handle.order)

\* config.load(): the catalog in the handle
shared_config == Load(shared).config

-----------------------------------------------------------------------------
(* input.rs *)

\* (touchpad_size * threshold) as u16, per axis
calculate_move_threshold_units(size, threshold) ==
    [x |-> (size.x * threshold.n) \div threshold.d,
     y |-> (size.y * threshold.n) \div threshold.d]

\* main.rs computes the semi-axes once, from the catalog loaded at startup
move_threshold_units == calculate_move_threshold_units(touchpad_size, move_threshold)

-----------------------------------------------------------------------------
(* gestures.rs: geometry *)

\* is_at_edge with a sample at exactly the threshold counted as off the edge
is_at_edge_Strict(pos) ==
    LET t == config.options.edge.threshold
        edge_threshold_x == (touchpad_size.x * t.n) \div t.d
        edge_threshold_y == (touchpad_size.y * t.n) \div t.d
    IN IF pos.x < edge_threshold_x THEN "Left"
       ELSE IF pos.x > touchpad_size.x - edge_threshold_x THEN "Right"
       ELSE IF pos.y < edge_threshold_y THEN "Top"
       ELSE IF pos.y > touchpad_size.y - edge_threshold_y THEN "Bottom"
       ELSE "None"

is_at_edge(pos) ==
    LET t == config.options.edge.threshold
        edge_threshold_x == (touchpad_size.x * t.n) \div t.d
        edge_threshold_y == (touchpad_size.y * t.n) \div t.d
    IN IF pos.x <= edge_threshold_x THEN "Left"
       ELSE IF pos.x >= touchpad_size.x - edge_threshold_x THEN "Right"
       ELSE IF pos.y <= edge_threshold_y THEN "Top"
       ELSE IF pos.y >= touchpad_size.y - edge_threshold_y THEN "Bottom"
       ELSE "None"

\* ((x-h)/(Tx*s))^2 + ((y-k)/(Ty*s))^2 > 1 with s = sn/sd, cross-multiplied
\* (Tx, Ty and sn are positive for every catalog of the model)
point_outside_of_ellipse(x, y, h, k, is_edge) ==
    LET e == config.options.edge.sensitivity
        sn == IF is_edge THEN e.d - e.n ELSE 1
        sd == IF is_edge THEN e.d ELSE 1
        tx == move_threshold_units.x
        ty == move_threshold_units.y
        dx == x - h
        dy == y - k
    IN sd * sd * (dx * dx * ty * ty + dy * dy * tx * tx) > sn * sn * tx * tx * ty * ty

Abs(a) == IF a < 0 THEN -a ELSE a

\* point_side_in_ellipse on the deltas in device units, not divided by the semi-axes
point_side_in_ellipse_RawDeltas(x, y, h, k) ==
    LET dx == x - h
        dy == y - k
    IN IF Abs(dx) > Abs(dy)
       THEN (IF dx >= 0 THEN "Right" ELSE "Left")
       ELSE IF dy < 0 THEN "Up" ELSE "Down"

point_side_in_ellipse(x, y, h, k) ==
    LET dx == x - h
        dy == y - k
    IN IF Abs(dx) * move_threshold_units.y > Abs(dy) * move_threshold_units.x
       THEN (IF dx >= 0 THEN "Right" ELSE "Left")
       ELSE IF dy < 0 THEN "Up" ELSE "Down"

-----------------------------------------------------------------------------
(* gestures.rs: the matcher *)

IsTouchStep(step) == step.type \in {"TouchDown", "TouchUp"}

\* number of trailing TouchDown / TouchUp steps
RECURSIVE TrailingCount(_)
TrailingCount(seq) ==
    IF seq = <<>> \/ ~IsTouchStep(seq[Len(seq)]) THEN 0
    ELSE 1 + TrailingCount(SubSeq(seq, 1, Len(seq) - 1))

\* the gestures of the bindings whose regex matches text, in list order
RECURSIVE AppGestures(_, _)
AppGestures(bindings, text) ==
    IF bindings = <<>> THEN <<>>
    ELSE (IF IsMatch(Head(bindings).regex, text) THEN Head(bindings).gestures ELSE <<>>)
         \o AppGestures(Tail(bindings), text)

\* Candidates with the by_title matches chained before the by_class matches
Candidates_TitleFirst ==
    config.gestures
    \o AppGestures(config.application_gestures.by_title, active_window.title)
    \o AppGestures(config.application_gestures.by_class, active_window.class)

\* config.gestures.iter().chain(by_class matches).chain(by_title matches)
Candidates ==
    config.gestures
    \o AppGestures(config.application_gestures.by_class, active_window.class)
    \o AppGestures(config.application_gestures.by_title, active_window.title)

does_gesture_match(gesture, seq, mode) ==
    /\ ~(Len(gesture.sequence) # Len(seq)
         \/ (gesture.repeat_mode # RM_Slide /\ mode = RM_Slide))
    /\ \A i \in 1..Len(gesture.sequence) : StepEq(gesture.sequence[i], seq[i])

\* StepLoop with the comparison of the tie-break turned non-strict (dst >= distance)
RECURSIVE StepLoop_NonStrict(_, _, _)
StepLoop_NonStrict(acc, gesture, i) ==
    IF i > Len(gesture.sequence) THEN acc
    ELSE LET step == gesture.sequence[i]
             dst == [n |-> step.distance.n, d |-> step.distance.d]
         IN StepLoop_NonStrict(IF step.type = "Move" /\ step.distance.some /\ ~RatLess(dst, acc.distance)
                               THEN [matched |-> gesture, distance |-> dst]
                               ELSE acc,
                               gesture, i + 1)

\* the inner loop of the tie-break over the steps of one gesture
RECURSIVE StepLoop(_, _, _)
StepLoop(acc, gesture, i) ==
    IF i > Len(gesture.sequence) THEN acc
    ELSE LET step == gesture.sequence[i]
             dst == [n |-> step.distance.n, d |-> step.distance.d]
         IN StepLoop(IF step.type = "Move" /\ step.distance.some /\ RatLess(acc.distance, dst)
                     THEN [matched |-> gesture, distance |-> dst]
                     ELSE acc,
                     gesture, i + 1)

\* the outer loop: matching_gestures.iter().skip(1)
RECURSIVE GestureLoop(_, _, _)
GestureLoop(acc, matching, j) ==
    IF j > Len(matching) THEN acc
    ELSE GestureLoop(StepLoop(acc, matching[j], 1), matching, j + 1)

\* the gesture that runs when run_all_matches is false
select_gesture(matching) ==
    GestureLoop([matched |-> matching[1], distance |-> RatZero], matching, 2).matched

Names(gestures) == [i \in 1..Len(gestures) |-> gestures[i].name]

Commands(gestures) == [i \in 1..Len(gestures) |-> gestures[i].command]

\* observation: the touchpad edges at which a contact of the current physical gesture first appeared
StartEdges(m) ==
    { is_at_edge(m.initial_touch_down_state[s]) : s \in DOMAIN m.initial_touch_down_state } \ {"None"}

\* observation: the displacement of every contact from its first position, in device units
Displacements(m) ==
    [s \in (DOMAIN m.frame) \cap (DOMAIN m.initial_touch_down_state) |->
        PositionDistance(m.frame[s], m.initial_touch_down_state[s])]

\* match_gestures that does not re-attach the trailing steps when nothing matched
match_gestures_DropsTrailing(m, mode) ==
    LET seq == m.performed_sequence
        trailing_count == TrailingCount(seq)
        trimmed == SubSeq(seq, 1, Len(seq) - trailing_count)
        matching_gestures == SelectSeq(Candidates, LAMBDA g : does_gesture_match(g, trimmed, mode))
        ran == IF matching_gestures = <<>> THEN <<>>
               ELSE IF config.options.run_all_matches THEN Commands(matching_gestures)
               ELSE <<select_gesture(matching_gestures).command>>
        record == [mode |-> mode, sequence |-> trimmed,
                   trailing |-> SubSeq(seq, Len(seq) - trailing_count + 1, Len(seq)),
                   window |-> active_window,
                   fingers |-> IF m.frame_empty THEN 0 ELSE Cardinality(DOMAIN m.frame),
                   start_edges |-> StartEdges(m), displacements |-> Displacements(m),
                   matching |-> Names(matching_gestures), fired |-> ran]
        logged == [m EXCEPT !.invocations = Append(@, record)]
    IN IF matching_gestures # <<>>
       THEN [logged EXCEPT !.performed_sequence = trimmed, !.repeat_mode = mode]
       ELSE [logged EXCEPT !.performed_sequence = trimmed]

\* match_gestures; every invocation is recorded in m.invocations
match_gestures(m, mode) ==
    LET seq == m.performed_sequence
        trailing_count == TrailingCount(seq)
        trimmed == SubSeq(seq, 1, Len(seq) - trailing_count)
        matching_gestures == SelectSeq(Candidates, LAMBDA g : does_gesture_match(g, trimmed, mode))
        ran == IF matching_gestures = <<>> THEN <<>>
               ELSE IF config.options.run_all_matches THEN Commands(matching_gestures)
               ELSE <<select_gesture(matching_gestures).command>>
        record == [mode |-> mode, sequence |-> trimmed,
                   trailing |-> SubSeq(seq, Len(seq) - trailing_count + 1, Len(seq)),
                   window |-> active_window,
                   fingers |-> IF m.frame_empty THEN 0 ELSE Cardinality(DOMAIN m.frame),
                   start_edges |-> StartEdges(m), displacements |-> Displacements(m),
                   matching |-> Names(matching_gestures), fired |-> ran]
        logged == [m EXCEPT !.invocations = Append(@, record)]
    IN IF matching_gestures # <<>>
       THEN [logged EXCEPT !.performed_sequence = trimmed, !.repeat_mode = mode]
       ELSE logged

-----------------------------------------------------------------------------
(* gestures.rs: the step builder *)

LastIs(seq, type) == seq # <<>> /\ seq[Len(seq)].type = type

InsertSlotLast(seq, slot) == [seq EXCEPT ![Len(seq)].slots = @ \cup {slot}]

AxisSize(dir) == IF dir \in {"Up", "Down"} THEN touchpad_size.y ELSE touchpad_size.x

\* the component of a position distance along the axis of dir (0 for None)
AxisDistance(distance, dir) ==
    IF dir \in {"Up", "Down"} THEN distance.y
    ELSE IF dir \in {"Left", "Right"} THEN distance.x
    ELSE 0

\* update_last_step that never finds a step to extend
update_last_step_NeverMerges(m, slot, dir, distance) == [m |-> m, ok |-> FALSE]

update_last_step(m, slot, dir, distance) ==
    LET seq == m.performed_sequence
    IN IF LastIs(seq, "Move") /\ seq[Len(seq)].direction = dir
       THEN LET inserted == InsertSlotLast(seq, slot)
            IN IF dir = "None"
               THEN [m |-> [m EXCEPT !.performed_sequence = inserted], ok |-> FALSE]
               ELSE [m |-> [m EXCEPT !.performed_sequence =
                                [inserted EXCEPT ![Len(seq)].distance = Rat(distance, AxisSize(dir))]],
                     ok |-> TRUE]
       ELSE [m |-> m, ok |-> FALSE]

\* for (slot, pos) in &state { self.touch_down_state.insert(*slot, *pos); }
ResetStartPositions(m, state) ==
    [m EXCEPT !.touch_down_state = [s \in (DOMAIN @) \cup (DOMAIN state) |->
                                        IF s \in DOMAIN state THEN state[s] ELSE @[s]]]

\* lines 122-139, one iteration
InsertSlot(acc, state, slot) ==
    LET pos == state[slot]
        m == acc.m
        m1 == IF slot \notin DOMAIN m.touch_down_state
              THEN [m EXCEPT !.touch_down_state = Put(@, slot, pos)]
              ELSE m
    IN IF slot \in DOMAIN m1.initial_touch_down_state
       THEN [acc EXCEPT !.m = m1]
       ELSE LET m2 == [m1 EXCEPT !.initial_touch_down_state = Put(@, slot, pos)]
                edge == is_at_edge(pos)
            IN IF edge = "None" THEN [acc EXCEPT !.m = m2]
               ELSE IF LastIs(m2.performed_sequence, "MoveEdge")
               THEN [acc EXCEPT !.m = [m2 EXCEPT !.performed_sequence = InsertSlotLast(@, slot)]]
               ELSE [m |-> m2, slots_at_edge |-> acc.slots_at_edge \cup {slot}, slots_edge |-> edge]

RECURSIVE InsertLoop(_, _, _, _)
InsertLoop(acc, state, order, i) ==
    IF i > Len(order) THEN acc
    ELSE InsertLoop(InsertSlot(acc, state, order[i]), state, order, i + 1)

\* lines 141-144
PushEdgeMove(acc, state) ==
    IF Cardinality(acc.slots_at_edge) = Cardinality(DOMAIN state)
    THEN [acc.m EXCEPT !.performed_sequence =
              Append(@, PMoveEdge(acc.slots_at_edge, acc.slots_edge, "None"))]
    ELSE acc.m

\* lines 150-162, one iteration
LiftSlot(m, state, slot) ==
    IF LastIs(m.performed_sequence, "TouchUp")
    THEN [m EXCEPT !.performed_sequence = InsertSlotLast(@, slot)]
    ELSE LET pushed == [m EXCEPT !.performed_sequence = Append(@, PTouchUp({slot}))]
             reset == ResetStartPositions(pushed, state)
         IN [reset EXCEPT !.slots_outside_ellipse = @ \ {slot}]

RECURSIVE LiftLoop(_, _, _, _)
LiftLoop(m, state, lifted_slots, i) ==
    IF i > Len(lifted_slots) THEN m
    ELSE LiftLoop(LiftSlot(m, state, lifted_slots[i]), state, lifted_slots, i + 1)

\* lines 146-162: extract the lifted slots from touch_down_state, then handle each
EvictLifted(m, state, lifted_slots) ==
    LiftLoop([m EXCEPT !.touch_down_state = [s \in (DOMAIN @) \cap (DOMAIN state) |-> @[s]]],
             state, lifted_slots, 1)

\* lines 165-184, one iteration
EdgeSlot(m, state, slot) ==
    LET pos == state[slot] IN
    IF slot \notin DOMAIN m.touch_down_state THEN m
    ELSE LET start_pos == m.touch_down_state[slot] IN
         IF point_outside_of_ellipse(pos.x, pos.y, start_pos.x, start_pos.y, TRUE)
         THEN LET dir == point_side_in_ellipse(pos.x, pos.y, start_pos.x, start_pos.y)
                  aimed == IF LastIs(m.performed_sequence, "MoveEdge")
                           THEN [m EXCEPT !.performed_sequence[Len(m.performed_sequence)].direction = dir]
                           ELSE m
              IN ResetStartPositions(match_gestures(aimed, RM_Slide), state)
         ELSE m

RECURSIVE EdgeLoop(_, _, _, _)
EdgeLoop(m, state, order, i) ==
    IF i > Len(order) THEN m
    ELSE EdgeLoop(EdgeSlot(m, state, order[i]), state, order, i + 1)

\* lines 164-185
EdgeMoves(m, state, order) ==
    IF LastIs(m.performed_sequence, "MoveEdge") THEN EdgeLoop(m, state, order, 1) ELSE m

\* lines 193-224: the slot left the ellipse
CommitMove(m, state, slot) ==
    LET pos == state[slot]
        start_pos == m.touch_down_state[slot]
        dir == point_side_in_ellipse(pos.x, pos.y, start_pos.x, start_pos.y)
        m1 == [m EXCEPT !.direction = dir]
        distance == IF slot \in DOMAIN m1.initial_touch_down_state
                    THEN AxisDistance(PositionDistance(pos, m1.initial_touch_down_state[slot]), dir)
                    ELSE 0
        upd == update_last_step(m1, slot, dir, distance)
        m2 == IF upd.ok THEN upd.m
              ELSE [upd.m EXCEPT !.performed_sequence =
                        Append(@, PMove({slot}, dir, Rat(distance, AxisSize(dir))))]
        m3 == [m2 EXCEPT !.touch_down_state[slot] = pos]
    IN [m3 EXCEPT !.slots_outside_ellipse = @ \cup {slot}]

\* lines 187-236, one iteration
MoveSlot(m, state, slot) ==
    LET pos == state[slot] IN
    IF slot \notin DOMAIN m.touch_down_state THEN m
    ELSE LET start_pos == m.touch_down_state[slot]
             m1 == IF point_outside_of_ellipse(pos.x, pos.y, start_pos.x, start_pos.y, FALSE)
                   THEN CommitMove(m, state, slot)
                   ELSE m
         IN IF slot \in DOMAIN m1.initial_touch_down_state /\ m1.direction # "None"
            THEN update_last_step(m1, slot, m1.direction,
                                  AxisDistance(PositionDistance(pos, m1.initial_touch_down_state[slot]),
                                               m1.direction)).m
            ELSE m1

RECURSIVE MoveLoop(_, _, _, _)
MoveLoop(m, state, order, i) ==
    IF i > Len(order) THEN m
    ELSE MoveLoop(MoveSlot(m, state, order[i]), state, order, i + 1)

\* lines 238-243
SlideMatch(m, state) ==
    IF /\ Cardinality(m.slots_outside_ellipse) = Cardinality(DOMAIN state)
       /\ m.slots_outside_ellipse \subseteq DOMAIN state
    THEN match_gestures([m EXCEPT !.slots_outside_ellipse = {}], RM_Slide)
    ELSE m

\* state.keys().find(|k| !previous_state.contains_key(k))
RECURSIVE FindNewSlot(_, _, _)
FindNewSlot(m, order, i) ==
    IF i > Len(order) THEN -1
    ELSE IF order[i] \notin DOMAIN m.previous_state THEN order[i]
    ELSE FindNewSlot(m, order, i + 1)

\* TapCheck that also runs while performed_sequence is empty
TapCheck_OnEmptySequence(m, state, order) ==
    IF Cardinality(DOMAIN state) > Cardinality(DOMAIN m.previous_state)
    THEN LET is_edge == LastIs(m.performed_sequence, "MoveEdge")
             new_slot == FindNewSlot(m, order, 1)
         IN IF new_slot = -1 THEN [m EXCEPT !.panicked = TRUE]
            ELSE LET m1 == IF LastIs(m.performed_sequence, "TouchDown")
                           THEN [m EXCEPT !.performed_sequence = InsertSlotLast(@, new_slot)]
                           ELSE IF ~is_edge
                           THEN [m EXCEPT !.performed_sequence = Append(@, PTouchDown({new_slot}))]
                           ELSE m
                     seq == m1.performed_sequence
                 IN IF is_edge THEN match_gestures(m1, RM_Tap)
                    ELSE IF Len(seq) < 2 THEN [m1 EXCEPT !.panicked = TRUE]
                    ELSE IF seq[Len(seq) - 1].type = "TouchUp" /\ seq[Len(seq)].type = "TouchDown"
                    THEN match_gestures(m1, RM_Tap)
                    ELSE m1
    ELSE m

\* lines 245-259
TapCheck(m, state, order) ==
    IF Cardinality(DOMAIN state) > Cardinality(DOMAIN m.previous_state) /\ m.performed_sequence # <<>>
    THEN LET is_edge == LastIs(m.performed_sequence, "MoveEdge")
             new_slot == FindNewSlot(m, order, 1)
         IN IF new_slot = -1 THEN [m EXCEPT !.panicked = TRUE]
            ELSE LET m1 == IF LastIs(m.performed_sequence, "TouchDown")
                           THEN [m EXCEPT !.performed_sequence = InsertSlotLast(@, new_slot)]
                           ELSE IF ~is_edge
                           THEN [m EXCEPT !.performed_sequence = Append(@, PTouchDown({new_slot}))]
                           ELSE m
                     seq == m1.performed_sequence
                 IN IF is_edge THEN match_gestures(m1, RM_Tap)
                    ELSE IF Len(seq) < 2 THEN [m1 EXCEPT !.panicked = TRUE]
                    ELSE IF seq[Len(seq) - 1].type = "TouchUp" /\ seq[Len(seq)].type = "TouchDown"
                    THEN match_gestures(m1, RM_Tap)
                    ELSE m1
    ELSE m

\* EmptyFrame that invokes the matcher whatever repeat_mode holds
EmptyFrame_AlwaysMatches(m) ==
    LET m1 == match_gestures(m, RM_None)
    IN [m1 EXCEPT !.previous_state = EmptyState,
                  !.touch_down_state = EmptyState,
                  !.initial_touch_down_state = EmptyState,
                  !.performed_sequence = <<>>,
                  !.slots_outside_ellipse = {}]

\* lines 104-117
EmptyFrame(m) ==
    LET m1 == IF m.repeat_mode = RM_None
              THEN match_gestures(m, RM_None)
              ELSE [m EXCEPT !.repeat_mode = RM_None]
    IN [m1 EXCEPT !.previous_state = EmptyState,
                  !.touch_down_state = EmptyState,
                  !.initial_touch_down_state = EmptyState,
                  !.performed_sequence = <<>>,
                  !.slots_outside_ellipse = {}]

\* update_state: order is the iteration order of state, lifted_slots that of the evicted slots
update_state(m0, state, order, lifted_slots) ==
    LET m == [m0 EXCEPT !.invocations = <<>>,
                        !.frame = IF DOMAIN state = {} THEN m0.previous_state ELSE state,
                        !.frame_empty = (DOMAIN state = {})] IN
    IF DOMAIN state = {} THEN EmptyFrame(m)
    ELSE LET inserted == InsertLoop([m |-> m, slots_at_edge |-> {}, slots_edge |-> "None"], state, order, 1)
             edged == PushEdgeMove(inserted, state)
             evicted == EvictLifted(edged, state, lifted_slots)
             aimed == EdgeMoves(evicted, state, order)
             moved == MoveLoop(aimed, state, order, 1)
             slid == SlideMatch(moved, state)
             tapped == TapCheck(slid, state, order)
         IN IF tapped.panicked THEN tapped
            ELSE [tapped EXCEPT !.previous_state = state]

-----------------------------------------------------------------------------
(* The state machine *)

Engine ==
    [previous_state |-> previous_state,
     touch_down_state |-> touch_down_state,
     initial_touch_down_state |-> initial_touch_down_state,
     performed_sequence |-> performed_sequence,
     repeat_mode |-> repeat_mode,
     slots_outside_ellipse |-> slots_outside_ellipse,
     direction |-> direction,
     invocations |-> invocations,
     panicked |-> panicked,
     frame |-> previous_state,
     frame_empty |-> FALSE]

\* the tap scenario: 0 no contact, 1 two fingers touched down together,
\* 2 one of them was released, 3 a finger touched down again, 4 anything else
NextTapPhase(phase, prev, state) ==
    IF DOMAIN state = {} THEN 0
    ELSE IF phase = 0 /\ Cardinality(DOMAIN state) = 2 THEN 1
    ELSE IF phase = 1 /\ Cardinality(DOMAIN state) = 1
            /\ \A s \in DOMAIN state : s \in DOMAIN prev /\ state[s] = prev[s] THEN 2
    ELSE IF phase = 2 /\ Cardinality(DOMAIN state) = 2
            /\ \A s \in DOMAIN prev : s \in DOMAIN state /\ state[s] = prev[s] THEN 3
    ELSE 4

\* no frame is being processed
NoFrame(handle) == [state |-> EmptyState, order |-> <<>>, reads |-> <<>>, handle |-> handle]

\* ArcSwap::new and config.swap: the value of the handle
Handle(file, order) == [file |-> file, order |-> order]

\* an absent position: None of Option<u16>
NoValue == [some |-> FALSE, v |-> 0]

\* main's state map before the first event
NoSlots == [s \in {} |-> [x |-> NoValue, y |-> NoValue]]

\* no slot has a tracking id
NoContacts == [ids |-> {}, xs |-> {}, ys |-> {}]

\* main loads the configuration file, then GesturesManager::new
StartOn(size, file, order) ==
    LET loaded == Load(Handle(file, order)) IN
    /\ loaded.ok
    /\ config = loaded.config
    /\ config_file = file
    /\ touchpad_size = size
    /\ move_threshold = loaded.config.options.move_threshold
    /\ shared = Handle(file, order)
    /\ active_window = [class |-> "", title |-> ""]
    /\ previous_state = EmptyState
    /\ touch_down_state = EmptyState
    /\ initial_touch_down_state = EmptyState
    /\ performed_sequence = <<>>
    /\ repeat_mode = RM_None
    /\ slots_outside_ellipse = {}
    /\ direction = "None"
    /\ invocations = <<>>
    /\ panicked = FALSE
    /\ frames = 0
    /\ tap_phase = 0
    /\ pc = "idle"
    /\ pending = NoFrame(Handle(file, order))
    /\ reloads = [watching |-> TRUE, failed |-> FALSE, last_ok |-> TRUE]
    /\ slot_state = NoSlots
    /\ current_slot = 0
    /\ contacts = NoContacts

\* main on the square touchpad
Start(file, order) == StartOn(SquareTouchpad, file, order)

\* the order in which the file lists its application_gestures keys
FileOrder(file) == [i \in 1..Len(File(file).application_gestures) |-> i]

\* the engine started on one of the startup files; their two keys feed different
\* lists, so every iteration order of the map loads the same catalog
Init == \E file \in StartupFiles : Start(file, FileOrder(file))

\* the fields of the engine after a step of update_state
Store(m) ==
    /\ previous_state' = m.previous_state
    /\ touch_down_state' = m.touch_down_state
    /\ initial_touch_down_state' = m.initial_touch_down_state
    /\ performed_sequence' = m.performed_sequence
    /\ repeat_mode' = m.repeat_mode
    /\ slots_outside_ellipse' = m.slots_outside_ellipse
    /\ direction' = m.direction
    /\ invocations' = m.invocations
    /\ panicked' = m.panicked

\* the event loop hands one frame to update_state
UpdateState ==
    /\ ~panicked
    /\ pc = "idle"
    /\ \E state \in Frames :
         /\ frames' = (IF DOMAIN state = {} THEN 0 ELSE frames + 1)
         /\ frames' <= MaxFrames
         /\ tap_phase' = NextTapPhase(tap_phase, previous_state, state)
         /\ \E order \in Orders(DOMAIN state) :
              \E lifted_slots \in Orders((DOMAIN touch_down_state) \ (DOMAIN state)) :
                \E m \in {update_state(Engine, state, order, lifted_slots)} :
                  /\ Len(m.performed_sequence) <= MaxSeqLen
                  /\ Store(m)
    /\ UNCHANGED <<config, active_window, watcher_vars, event_vars, pc, pending>>

\* the window monitor publishes the focused window
WindowChanged ==
    /\ \E w \in Windows : w # active_window /\ active_window' = w
    /\ UNCHANGED <<config, engine_vars, frames, tap_phase, watcher_vars, event_vars, pc, pending>>

Next == UpdateState \/ WindowChanged

Spec == Init /\ [][Next]_vars

-----------------------------------------------------------------------------
(* The engine under two fingers that move along a line *)

\* the frames of two fingers, at least one down, that each rest or move between
\* two points
MoveFrames ==
    UNION { [S -> { Pos(2, 2), Pos(4, 2) }] : S \in (SUBSET Slots) \ {{}} }

MoveInit == Start("startup", FileOrder("startup"))

\* the event loop hands one frame of the moving fingers to update_state
UpdateMoveState ==
    /\ ~panicked
    /\ pc = "idle"
    /\ \E state \in MoveFrames :
         /\ frames' = (IF DOMAIN state = {} THEN 0 ELSE frames + 1)
         /\ frames' <= MaxMoveFrames
         /\ tap_phase' = NextTapPhase(tap_phase, previous_state, state)
         /\ \E order \in Orders(DOMAIN state) :
              \E lifted_slots \in Orders((DOMAIN touch_down_state) \ (DOMAIN state)) :
                \E m \in {update_state(Engine, state, order, lifted_slots)} :
                  /\ Len(m.performed_sequence) <= MaxSeqLen
                  /\ Store(m)
    /\ UNCHANGED <<config, active_window, watcher_vars, event_vars, pc, pending>>

MoveNext == UpdateMoveState

MoveSpec == MoveInit /\ [][MoveNext]_vars

-----------------------------------------------------------------------------
(* The engine under one finger that lands anywhere on the touchpad *)

\* the frames of one finger at any position of the touchpad
EdgeFrames ==
    { [s \in {1} |-> Pos(x, y)] : x \in 0..touchpad_size.x, y \in 0..touchpad_size.y }

EdgeInit == \E file \in EdgeFiles : Start(file, FileOrder(file))

\* the event loop hands one frame of the landing finger to update_state
UpdateEdgeState ==
    /\ ~panicked
    /\ pc = "idle"
    /\ \E state \in EdgeFrames :
         /\ frames' = frames + 1
         /\ frames' <= MaxEdgeFrames
         /\ tap_phase' = NextTapPhase(tap_phase, previous_state, state)
         /\ \E order \in Orders(DOMAIN state) :
              \E lifted_slots \in Orders((DOMAIN touch_down_state) \ (DOMAIN state)) :
                \E m \in {update_state(Engine, state, order, lifted_slots)} :
                  /\ Len(m.performed_sequence) <= MaxSeqLen
                  /\ Store(m)
    /\ UNCHANGED <<config, active_window, watcher_vars, event_vars, pc, pending>>

EdgeSpec == EdgeInit /\ [][UpdateEdgeState]_vars

-----------------------------------------------------------------------------
(* The engine under one finger that slides inside the touchpad *)

\* the frames of one finger at a position away from every edge
SlideFrames == { [s \in {1} |-> Pos(x, y)] : x \in 1..4, y \in 1..4 }

\* main on the square or on the wide touchpad
SlideInit == \E size \in { SquareTouchpad, WideTouchpad } : StartOn(size, "startup", FileOrder("startup"))

\* the event loop hands one frame of the sliding finger to update_state
UpdateSlideState ==
    /\ ~panicked
    /\ pc = "idle"
    /\ \E state \in SlideFrames :
         /\ frames' = frames + 1
         /\ frames' <= MaxSlideFrames
         /\ tap_phase' = NextTapPhase(tap_phase, previous_state, state)
         /\ \E order \in Orders(DOMAIN state) :
              \E lifted_slots \in Orders((DOMAIN touch_down_state) \ (DOMAIN state)) :
                \E m \in {update_state(Engine, state, order, lifted_slots)} :
                  /\ Len(m.performed_sequence) <= MaxSeqLen
                  /\ Store(m)
    /\ UNCHANGED <<config, active_window, watcher_vars, event_vars, pc, pending>>

SlideSpec == SlideInit /\ [][UpdateSlideState]_vars

-----------------------------------------------------------------------------
(* The engine under single fingers that land one after the other *)

\* the frames of one finger, of either slot, at the middle of the touchpad, at a
\* point to its right or at a point on the left border
LandFrames == UNION { [{slot} -> { Pos(2, 2), Pos(4, 2), Pos(0, 2) }] : slot \in Slots }

LandInit == Start("startup", FileOrder("startup"))

\* the event loop hands one frame of a single finger to update_state
UpdateLandState ==
    /\ ~panicked
    /\ pc = "idle"
    /\ \E state \in LandFrames :
         /\ frames' = frames + 1
         /\ frames' <= MaxLandFrames
         /\ tap_phase' = NextTapPhase(tap_phase, previous_state, state)
         /\ \E order \in Orders(DOMAIN state) :
              \E lifted_slots \in Orders((DOMAIN touch_down_state) \ (DOMAIN state)) :
                \E m \in {update_state(Engine, state, order, lifted_slots)} :
                  /\ Len(m.performed_sequence) <= MaxSeqLen
                  /\ Store(m)
    /\ UNCHANGED <<config, active_window, watcher_vars, event_vars, pc, pending>>

LandSpec == LandInit /\ [][UpdateLandState]_vars

-----------------------------------------------------------------------------
(* The engine under three fingers, one of which slides, that lift in any order *)

\* the slots of three fingers
LiftSlots == { 1, 2, 3 }

\* every non-empty frame of fingers resting at (2, 2), finger 1 also at (4, 2)
LiftFrames ==
    { f \in UNION { [S -> { Pos(2, 2), Pos(4, 2) }] : S \in (SUBSET LiftSlots) \ {{}} } :
        \A s \in DOMAIN f : s # 1 => f[s] = Pos(2, 2) }

LiftInit == Start("startup", FileOrder("startup"))

\* the event loop hands one frame of the three fingers to update_state
UpdateLiftState ==
    /\ ~panicked
    /\ pc = "idle"
    /\ \E state \in LiftFrames :
         /\ frames' = frames + 1
         /\ frames' <= MaxLiftFrames
         /\ tap_phase' = NextTapPhase(tap_phase, previous_state, state)
         /\ \E order \in Orders(DOMAIN state) :
              \E lifted_slots \in Orders((DOMAIN touch_down_state) \ (DOMAIN state)) :
                \E m \in {update_state(Engine, state, order, lifted_slots)} :
                  /\ Len(m.performed_sequence) <= MaxSeqLen
                  /\ Store(m)
    /\ UNCHANGED <<config, active_window, watcher_vars, event_vars, pc, pending>>

LiftSpec == LiftInit /\ [][UpdateLiftState]_vars

-----------------------------------------------------------------------------
(* The event loop of main over the events of the touchpad *)

\* the slots the device reports; current_slot starts at 0
EventSlots == { 0, 1 }

\* the values of ABS_MT_TRACKING_ID: -1 releases the slot, any other value is a new id
TrackingIds == { -1, 7 }

\* the values of ABS_MT_POSITION_X and ABS_MT_POSITION_Y
XValues == { 2, 4 }

YValues == { 2 }

\* ABS_MT_TRACKING_ID that keeps the positions of a slot that gets a new id
tracking_id_KeepsPositions(st, slot, value) ==
    IF value = -1 THEN [s \in (DOMAIN st) \ {slot} |-> st[s]]
    ELSE IF slot \in DOMAIN st THEN st
    ELSE Put(st, slot, [x |-> NoValue, y |-> NoValue])

\* ABS_MT_TRACKING_ID: state.remove, or state.insert(current_slot, (None, None))
tracking_id(st, slot, value) ==
    IF value = -1 THEN [s \in (DOMAIN st) \ {slot} |-> st[s]]
    ELSE Put(st, slot, [x |-> NoValue, y |-> NoValue])

\* ABS_MT_POSITION_X: state.get_mut(&current_slot) sets position.0
position_x(st, slot, value) ==
    IF slot \in DOMAIN st THEN [st EXCEPT ![slot].x = [some |-> TRUE, v |-> value]] ELSE st

\* ABS_MT_POSITION_Y: state.get_mut(&current_slot) sets position.1
position_y(st, slot, value) ==
    IF slot \in DOMAIN st THEN [st EXCEPT ![slot].y = [some |-> TRUE, v |-> value]] ELSE st

\* the slots with both positions, as a frame
filtered_state(st) ==
    [s \in { t \in DOMAIN st : st[t].x.some /\ st[t].y.some } |-> Pos(st[s].x.v, st[s].y.v)]

\* the contacts after a tracking id event: a released slot is no contact, a new
\* id starts a contact that received no position yet
ContactsAfterId(c, slot, value) ==
    [ids |-> IF value = -1 THEN c.ids \ {slot} ELSE c.ids \cup {slot},
     xs |-> c.xs \ {slot},
     ys |-> c.ys \ {slot}]

\* the contacts after a position event on an axis ("x" or "y")
ContactsAfterPosition(c, slot, axis) ==
    IF slot \notin c.ids THEN c
    ELSE IF axis = "x" THEN [c EXCEPT !.xs = @ \cup {slot}]
    ELSE [c EXCEPT !.ys = @ \cup {slot}]

EventInit == Start("startup", FileOrder("startup"))

AbsMtSlot ==
    /\ ~panicked
    /\ pc = "idle"
    /\ \E slot \in EventSlots : current_slot' = slot
    /\ UNCHANGED <<config, active_window, engine_vars, frames, tap_phase, watcher_vars, pc,
                   pending, slot_state, contacts>>

AbsMtTrackingId ==
    /\ ~panicked
    /\ pc = "idle"
    /\ \E value \in TrackingIds :
         /\ slot_state' = tracking_id(slot_state, current_slot, value)
         /\ contacts' = ContactsAfterId(contacts, current_slot, value)
    /\ UNCHANGED <<config, active_window, engine_vars, frames, tap_phase, watcher_vars, pc,
                   pending, current_slot>>

AbsMtPositionX ==
    /\ ~panicked
    /\ pc = "idle"
    /\ \E value \in XValues : slot_state' = position_x(slot_state, current_slot, value)
    /\ contacts' = ContactsAfterPosition(contacts, current_slot, "x")
    /\ UNCHANGED <<config, active_window, engine_vars, frames, tap_phase, watcher_vars, pc,
                   pending, current_slot>>

AbsMtPositionY ==
    /\ ~panicked
    /\ pc = "idle"
    /\ \E value \in YValues : slot_state' = position_y(slot_state, current_slot, value)
    /\ contacts' = ContactsAfterPosition(contacts, current_slot, "y")
    /\ UNCHANGED <<config, active_window, engine_vars, frames, tap_phase, watcher_vars, pc,
                   pending, current_slot>>

\* a synchronization event: the filtered state goes to update_state
Synchronization ==
    /\ ~panicked
    /\ pc = "idle"
    /\ \E state \in {filtered_state(slot_state)} :
         /\ frames' = (IF DOMAIN state = {} THEN 0 ELSE frames + 1)
         /\ frames' <= MaxEventFrames
         /\ tap_phase' = NextTapPhase(tap_phase, previous_state, state)
         /\ \E order \in Orders(DOMAIN state) :
              \E lifted_slots \in Orders((DOMAIN touch_down_state) \ (DOMAIN state)) :
                \E m \in {update_state(Engine, state, order, lifted_slots)} :
                  /\ Len(m.performed_sequence) <= MaxSeqLen
                  /\ Store(m)
    /\ UNCHANGED <<config, active_window, watcher_vars, pc, pending, event_vars>>

EventNext ==
    \/ AbsMtSlot
    \/ AbsMtTrackingId
    \/ AbsMtPositionX
    \/ AbsMtPositionY
    \/ Synchronization

EventSpec == EventInit /\ [][EventNext]_vars

-----------------------------------------------------------------------------
(* The engine beside the config watcher *)

\* the frames of one finger that rests or moves between two points
LoadFrames ==
    { f \in Frames : DOMAIN f \subseteq {1} /\ \A s \in DOMAIN f : f[s] \in { Pos(2, 2), Pos(4, 2) } }

\* CatalogOfFrame for an engine that loads the handle at every read
CatalogOfFrame_LoadsAtEveryRead(held, handle, at) == handle

\* the catalog a step of update_state reads: the engine loads the handle when the
\* frame arrives and holds that snapshot until the frame is done
CatalogOfFrame(held, handle, at) == IF at = "idle" THEN handle ELSE held

\* update_state so far, on the frame being processed
EngineAt(state) ==
    [Engine EXCEPT !.frame = IF DOMAIN state = {} THEN previous_state ELSE state,
                   !.frame_empty = (DOMAIN state = {})]

LoadInit == \E file \in LoadFiles : \E order \in KeyOrders(File(file)) : Start(file, order)

\* the event loop receives a frame and calls update_state
FrameArrives ==
    /\ ~panicked
    /\ pc = "idle"
    /\ \E state \in LoadFrames :
         \E order \in Orders(DOMAIN state) :
           /\ frames' = (IF DOMAIN state = {} THEN 0 ELSE frames + 1)
           /\ frames' <= MaxFrames
           /\ tap_phase' = NextTapPhase(tap_phase, previous_state, state)
           /\ pending' = [state |-> state, order |-> order, reads |-> <<>>, handle |-> shared]
    /\ config' = CatalogOfFrame(config, shared_config, pc)
    /\ config_file' = shared.file
    /\ pc' = "insert"
    /\ UNCHANGED <<active_window, engine_vars, move_threshold, touchpad_size, event_vars, shared,
                   reloads>>

\* lines 104-162: the empty frame, or the new and the lifted slots
FrameInsert ==
    /\ pc = "insert"
    /\ LET state == pending.state
           m0 == [EngineAt(state) EXCEPT !.invocations = <<>>]
       IN IF DOMAIN state = {}
          THEN /\ Store(EmptyFrame(m0))
               /\ pc' = "idle"
          ELSE /\ \E lifted_slots \in Orders((DOMAIN touch_down_state) \ (DOMAIN state)) :
                    Store(EvictLifted(PushEdgeMove(InsertLoop([m |-> m0, slots_at_edge |-> {},
                                                               slots_edge |-> "None"],
                                                              state, pending.order, 1),
                                                   state),
                                      state, lifted_slots))
               /\ pc' = "moves"
    /\ config' = CatalogOfFrame(config, shared_config, pc)
    /\ pending' = [pending EXCEPT !.reads = Append(@, config)]
    /\ UNCHANGED <<active_window, frames, tap_phase, watcher_vars, event_vars>>

\* lines 164-243: edge moves, moves and the slide match
FrameMoves ==
    /\ pc = "moves"
    /\ LET state == pending.state IN
       \E m \in {SlideMatch(MoveLoop(EdgeMoves(EngineAt(state), state, pending.order),
                                     state, pending.order, 1),
                            state)} :
         /\ Len(m.performed_sequence) <= MaxSeqLen
         /\ Store(m)
    /\ config' = CatalogOfFrame(config, shared_config, pc)
    /\ pending' = [pending EXCEPT !.reads = Append(@, config)]
    /\ pc' = "tap"
    /\ UNCHANGED <<active_window, frames, tap_phase, watcher_vars, event_vars>>

\* lines 245-261: the tap check, then the frame becomes previous_state
FrameTap ==
    /\ pc = "tap"
    /\ LET state == pending.state IN
       \E m \in {TapCheck(EngineAt(state), state, pending.order)} :
         /\ Len(m.performed_sequence) <= MaxSeqLen
         /\ Store(IF m.panicked THEN m ELSE [m EXCEPT !.previous_state = state])
    /\ config' = CatalogOfFrame(config, shared_config, pc)
    /\ pending' = [pending EXCEPT !.reads = Append(@, config)]
    /\ pc' = "idle"
    /\ UNCHANGED <<active_window, frames, tap_phase, watcher_vars, event_vars>>

\* ReloadFile of a watcher thread that ends at the first parse that fails
ReloadFile_StopsAfterFailure(file, order) ==
    /\ reloads.watching
    /\ IF Load(Handle(file, order)).ok
       THEN /\ shared' = Handle(file, order)
            /\ reloads' = [reloads EXCEPT !.last_ok = TRUE]
       ELSE /\ UNCHANGED shared
            /\ reloads' = [watching |-> FALSE, failed |-> TRUE, last_ok |-> FALSE]
    /\ UNCHANGED <<config, config_file, move_threshold, touchpad_size, event_vars,
                   active_window, engine_vars, frames, tap_phase, pc, pending>>

\* the watcher sees the configuration file change to the given contents and
\* parses it again: Ok swaps the handle, Err is logged; the loop goes on
ReloadFile(file, order) ==
    /\ reloads.watching
    /\ IF Load(Handle(file, order)).ok
       THEN /\ shared' = Handle(file, order)
            /\ reloads' = [reloads EXCEPT !.last_ok = TRUE]
       ELSE /\ UNCHANGED shared
            /\ reloads' = [watching |-> TRUE, failed |-> TRUE, last_ok |-> FALSE]
    /\ UNCHANGED <<config, config_file, move_threshold, touchpad_size, event_vars,
                   active_window, engine_vars, frames, tap_phase, pc, pending>>

\* the loop of the watcher thread over the change events
Reload == \E file \in LoadFiles : \E order \in KeyOrders(File(file)) : ReloadFile(file, order)

LoadNext == FrameArrives \/ FrameInsert \/ FrameMoves \/ FrameTap \/ Reload \/ WindowChanged

LoadSpec == LoadInit /\ [][LoadNext]_vars

-----------------------------------------------------------------------------
(* Vocabulary of the properties *)

RECURSIVE Flatten(_)
Flatten(bindings) ==
    IF bindings = <<>> THEN <<>> ELSE Head(bindings).gestures \o Flatten(Tail(bindings))

\* every gesture of the loaded catalog
AllGestures ==
    Range(config.gestures)
    \cup Range(Flatten(config.application_gestures.by_class))
    \cup Range(Flatten(config.application_gestures.by_title))

GestureOf(command) == CHOOSE g \in AllGestures : g.command = command

Invocations == Range(invocations)

\* the commands the last update_state call ran
Fired == UNION { Range(inv.fired) : inv \in Invocations }

HasSlideBit(rm) == (rm \div 2) % 2 = 1

-----------------------------------------------------------------------------
(* C1 *)

\* C1: a gesture declared with repeat mode none runs its command only in the
\* mode-none invocation of the all-fingers-lifted frame; no slide-mode or
\* tap-mode invocation made while fingers are down ever runs it.
C1_NoneFiresOnlyAtLift ==
    \A inv \in Invocations :
      \A c \in Range(inv.fired) :
        GestureOf(c).repeat_mode = RM_None => inv.mode = RM_None /\ inv.fingers = 0

-----------------------------------------------------------------------------
(* C2 *)

SequenceEquals(gesture, seq) ==
    /\ Len(gesture.sequence) = Len(seq)
    /\ \A i \in 1..Len(seq) : StepEq(gesture.sequence[i], seq[i])

\* C2: in a slide-mode invocation a gesture whose sequence equals the performed
\* sequence is eligible iff its declared repeat_mode includes the slide bit
\* (tap+slide fires, none and tap do not).
C2_SlideBitDecides ==
    \A inv \in Invocations :
      inv.mode = RM_Slide =>
        \A g \in AllGestures :
          SequenceEquals(g, inv.sequence)
            => (g.name \in Range(inv.matching) <=> HasSlideBit(g.repeat_mode))

-----------------------------------------------------------------------------
(* C3 *)

\* C3: with the catalog gesture [TouchDown 2, TouchUp 2] (repeat tap), a
\* two-finger touchdown, a release and a further touchdown while one contact
\* stays down run the command on the release and again on the second touchdown.
C3_TapRepeatFires ==
    tap_phase \in {2, 3} => "tap2" \in Fired

-----------------------------------------------------------------------------
(* C4 *)

\* C4: a gesture declared for edge E runs only for a physical gesture that
\* started at E: some contact of it first appeared at that edge.
C4_EdgeGestureNeedsEdgeStart ==
    \A inv \in Invocations :
      \A c \in Range(inv.fired) :
        GestureOf(c).edge # "None" => GestureOf(c).edge \in inv.start_edges

-----------------------------------------------------------------------------
(* C5 *)

\* the largest min_distance over the Move steps of a gesture (zero when none is set)
RECURSIVE MaxMinDistance(_, _)
MaxMinDistance(sequence, i) ==
    IF i > Len(sequence) THEN RatZero
    ELSE LET rest == MaxMinDistance(sequence, i + 1)
             step == sequence[i]
             here == IF step.type = "Move" /\ step.distance.some
                     THEN [n |-> step.distance.n, d |-> step.distance.d]
                     ELSE RatZero
         IN IF RatLess(rest, here) THEN here ELSE rest

\* the candidates of an invocation, in candidate order, that matched
MatchedCandidates(inv) ==
    LET all == config.gestures
               \o AppGestures(config.application_gestures.by_class, inv.window.class)
               \o AppGestures(config.application_gestures.by_title, inv.window.title)
    IN SelectSeq(all, LAMBDA g : g.name \in Range(inv.matching))

\* C5: with run_all_matches false exactly one command runs, that of the
\* matching candidate with the largest min_distance among all matching
\* candidates, the earliest in candidate order among equals.
C5_LargestMinDistanceWins ==
    ~config.options.run_all_matches =>
      \A inv \in Invocations :
        inv.matching # <<>> =>
          LET cands == MatchedCandidates(inv)
              best == CHOOSE i \in 1..Len(cands) :
                        /\ \A j \in 1..Len(cands) :
                             ~RatLess(MaxMinDistance(cands[i].sequence, 1), MaxMinDistance(cands[j].sequence, 1))
                        /\ \A j \in 1..(i - 1) :
                             RatLess(MaxMinDistance(cands[j].sequence, 1), MaxMinDistance(cands[i].sequence, 1))
          IN inv.fired = <<cands[best].command>>

-----------------------------------------------------------------------------
(* C6 *)

\* globals first, then the gestures of the matching by_class bindings, then by_title
CandidateOrder(window) ==
    config.gestures
    \o AppGestures(config.application_gestures.by_class, window.class)
    \o AppGestures(config.application_gestures.by_title, window.title)

\* C6: with run_all_matches true an invocation runs the command of every
\* candidate that satisfies the match predicate, in candidate order: globals,
\* then matching by_class bindings in list order, then matching by_title ones.
C6_RunAllInCandidateOrder ==
    config.options.run_all_matches =>
      \A inv \in Invocations :
        inv.fired = Commands(SelectSeq(CandidateOrder(inv.window),
                                       LAMBDA g : does_gesture_match(g, inv.sequence, inv.mode)))

\* an invocation ran a global, a by_class and a by_title gesture
C6_Witness ==
    /\ config.options.run_all_matches
    /\ \E inv \in Invocations :
         {"left", "cls_left", "ttl_left"} \subseteq Range(inv.fired)

-----------------------------------------------------------------------------
(* C7 *)

\* equality of a defined and a performed step as the data model states it
\* (an edge-tagged move is the variant of its edge)
DefinedEqualsPerformed(d, p) ==
    /\ d.type = p.type /\ d.edge = p.edge
    /\ d.fingers = Cardinality(p.slots)
    /\ d.type \in {"Move", "MoveEdge"} => d.direction = p.direction
    /\ d.distance.some => d.distance.n * p.distance.d <= p.distance.n * d.distance.d

PairwiseEqual(gesture, seq) ==
    /\ Len(gesture.sequence) = Len(seq)
    /\ \A i \in 1..Len(seq) : DefinedEqualsPerformed(gesture.sequence[i], seq[i])

\* the slide filter of the matcher lets the gesture through
PassesSlideFilter(gesture, mode) == mode # RM_Slide \/ gesture.repeat_mode = RM_Slide

\* C7: a candidate matches the performed sequence iff both have the same
\* length and every positionally paired step is equal (same variant, finger
\* count = number of slots, same direction for moves, distance >= min_distance
\* when one is present); the "if" direction for candidates the slide filter lets through.
C7_MatchIffPairwiseEqual ==
    \A inv \in Invocations :
      \A g \in Range(CandidateOrder(inv.window)) :
        /\ g.name \in Range(inv.matching) => PairwiseEqual(g, inv.sequence)
        /\ (PassesSlideFilter(g, inv.mode) /\ PairwiseEqual(g, inv.sequence))
             => g.name \in Range(inv.matching)

\* a performed move whose distance is exactly the min_distance of "far" matched it,
\* while a candidate of the same length with another finger count did not match
C7_Witness ==
    \E inv \in Invocations :
      /\ "far" \in Range(inv.matching)
      /\ "two_left" \notin Range(inv.matching)
      /\ Len(inv.sequence) = 1
      /\ inv.sequence[1].distance = Rat(2, 5)

-----------------------------------------------------------------------------
(* C8 *)

\* C8: when finger 2 touched down after finger 1 started a Left move, the
\* gesture [Move fingers:2, Left, min_distance 0.2] matches only once the own
\* displacement of finger 2 has reached 0.2 of the touchpad width, whatever
\* the iteration order.
C8_TrailingDistanceOfSecondFinger ==
    \A inv \in Invocations :
      ( /\ "two_left" \in Range(inv.matching)
        /\ inv.trailing = <<PTouchDown({2})>>
        /\ 2 \in DOMAIN inv.displacements )
      => 5 * inv.displacements[2].x >= touchpad_size.x

-----------------------------------------------------------------------------
(* C9 *)

\* C9: after an empty frame (previous_state is empty only then, or before the
\* first frame) all engine state equals its construction-time defaults.
C9_EmptyFrameResetsAll ==
    previous_state = EmptyState =>
      /\ touch_down_state = EmptyState
      /\ initial_touch_down_state = EmptyState
      /\ performed_sequence = <<>>
      /\ slots_outside_ellipse = {}
      /\ repeat_mode = RM_None
      /\ direction = "None"

-----------------------------------------------------------------------------
(* C10 *)

\* an update_state step whose frame equals the previous frame
SameFrameAgain == frames' = frames + 1 /\ previous_state' = previous_state

\* C10: feeding the same non-empty frame twice in succession is a no-op after
\* the first: the second call appends no step, runs no command and leaves the
\* engine state (slot set and distance of the last step included) unchanged.
C10_SameFrameIsNoOp ==
    [][SameFrameAgain =>
         /\ performed_sequence' = performed_sequence
         /\ \A i \in 1..Len(invocations') : invocations'[i].fired = <<>>
         /\ touch_down_state' = touch_down_state
         /\ initial_touch_down_state' = initial_touch_down_state
         /\ repeat_mode' = repeat_mode
         /\ slots_outside_ellipse' = slots_outside_ellipse
         /\ direction' = direction]_vars

-----------------------------------------------------------------------------
(* C11 *)

\* the entry is keyed by one pattern: "class:<regex>", "title:<regex>" or a bare regex
SingleKey(entry) == "," \notin Range(entry.key)

\* the pattern of a single key, without its prefix
KeyPattern(entry) ==
    IF Head(entry.key) \in {"class:", "title:"} THEN Tail(entry.key) ELSE entry.key

\* every gesture the entry declares is a candidate for the active window
EntryIsCandidate(entry) ==
    \A i \in 1..Len(entry.gestures) : entry.gestures[i].name \in Range(Names(Candidates))

\* C11: the gestures under a key "class:<regex>" are candidates exactly when the
\* regex matches the class of the active window, the same as under the bare key
\* "<regex>"; the gestures under "title:<regex>" are candidates exactly when the
\* regex matches the title of the active window.
C11_KeyPrefixSelectsWindowField ==
    \A entry \in Range(File(config_file).application_gestures) :
      SingleKey(entry) =>
        (EntryIsCandidate(entry) <=>
           IsMatch(Regex_new(KeyPattern(entry)).regex,
                   IF Head(entry.key) = "title:" THEN active_window.title ELSE active_window.class))

-----------------------------------------------------------------------------
(* C12 *)

\* the place in the configuration file of the entry a binding was built from
SourceIndex(binding) ==
    CHOOSE i \in 1..Len(File(config_file).application_gestures) :
      Names(File(config_file).application_gestures[i].gestures) = Names(binding.gestures)

\* the bindings of a list stand in the order of their entries in the file
InInsertionOrder(bindings) ==
    \A i, j \in 1..Len(bindings) : i < j => SourceIndex(bindings[i]) < SourceIndex(bindings[j])

\* C12: the by_class and by_title lists hold their bindings in the insertion
\* order of the configuration, so loading the same configuration always yields
\* the same order in both lists.
C12_BindingsInInsertionOrder ==
    /\ InInsertionOrder(config.application_gestures.by_class)
    /\ InInsertionOrder(config.application_gestures.by_title)
    /\ shared.file = config_file =>
         shared_config.application_gestures = config.application_gestures

-----------------------------------------------------------------------------
(* C13 *)

-----------------------------------------------------------------------------
(* C14 *)

\* C14: once the watcher has swapped in a reloaded catalog, every frame that
\* arrives afterwards is processed with the values of that catalog, the
\* semi-axes of the move-threshold ellipse included.
C14_FramesUseSwappedCatalog ==
    pc = "tap" =>
      /\ config = Load(pending.handle).config
      /\ \A i \in 1..Len(pending.reads) : pending.reads[i] = Load(pending.handle).config
      /\ move_threshold_units =
           calculate_move_threshold_units(touchpad_size,
                                          Load(pending.handle).config.options.move_threshold)

-----------------------------------------------------------------------------
(* C15 *)

\* a frame with the same contacts as the previous one, outside an edge move, in
\* which the position of some contact left the move-threshold ellipse around
\* its reference point: the move loop commits or extends a Move step for it
MoveCommitted ==
    /\ frames' = frames + 1
    /\ ~panicked'
    /\ DOMAIN previous_state' = DOMAIN previous_state
    /\ ~LastIs(performed_sequence, "MoveEdge")
    /\ \E s \in DOMAIN previous_state :
         point_outside_of_ellipse(previous_state'[s].x, previous_state'[s].y,
                                  touch_down_state[s].x, touch_down_state[s].y, FALSE)

\* C15: every frame in which a Move step is committed or extended because a
\* tracked position left the move-threshold ellipse invokes the matcher in
\* slide mode.
C15_CommitInvokesSlideMatcher ==
    [][MoveCommitted => \E i \in 1..Len(invocations') : invocations'[i].mode = RM_Slide]_vars

-----------------------------------------------------------------------------
(* C16 *)

\* the gesture with every absent min_distance of a Move step replaced by Some(0)
WithZeroDistance(gesture) ==
    [gesture EXCEPT !.sequence =
        [i \in 1..Len(gesture.sequence) |->
            IF gesture.sequence[i].type = "Move" /\ ~gesture.sequence[i].distance.some
            THEN [gesture.sequence[i] EXCEPT !.distance = Some(RatZero)]
            ELSE gesture.sequence[i]]]

\* C16: a Move step with min_distance 0 is equivalent to the step without a
\* minimum: for the sequence, mode and candidates of every matcher invocation,
\* the same gestures match and the tie-break selects the same gesture.
C16_ZeroDistanceIsNoMinimum ==
    \A inv \in Invocations :
      LET cands == CandidateOrder(inv.window)
          zeroed == [i \in 1..Len(cands) |-> WithZeroDistance(cands[i])]
          plain_matching == SelectSeq(cands, LAMBDA g : does_gesture_match(g, inv.sequence, inv.mode))
          zero_matching == SelectSeq(zeroed, LAMBDA g : does_gesture_match(g, inv.sequence, inv.mode))
      IN /\ Names(plain_matching) = Names(zero_matching)
         /\ Names(plain_matching) = inv.matching
         /\ plain_matching # <<>> =>
              select_gesture(plain_matching).name = select_gesture(zero_matching).name

\* the tie-break chose among several matching gestures that carry no
\* min_distance (left, cls_left, ttl_left)
C16_Witness ==
    /\ ~config.options.run_all_matches
    /\ \E inv \in Invocations :
         /\ {"left", "cls_left", "ttl_left"} \subseteq Range(inv.matching)
         /\ inv.fired # <<>>

-----------------------------------------------------------------------------
(* C17 *)

IsMoveStep(step) == step.type \in {"Move", "MoveEdge"}

\* C17: no step of performed_sequence carries direction None, edge-tagged
\* move steps included.
C17_NoStepWithDirectionNone ==
    \A i \in 1..Len(performed_sequence) :
      IsMoveStep(performed_sequence[i]) => performed_sequence[i].direction # "None"

-----------------------------------------------------------------------------
(* C18 *)

\* C18: performed_sequence never contains two adjacent Move steps with the
\* same direction.
C18_NoAdjacentEqualMoves ==
    \A i \in 1..(Len(performed_sequence) - 1) :
      ~( /\ performed_sequence[i].type = "Move"
         /\ performed_sequence[i + 1].type = "Move"
         /\ performed_sequence[i].direction = performed_sequence[i + 1].direction )

\* a match in tap mode dropped the trailing TouchUp and TouchDown steps, then the
\* second contact left its ellipse in the direction of the Move step the match
\* left last, and the sequence holds one Move step for both contacts
C18_Witness ==
    /\ Len(performed_sequence) = 1
    /\ performed_sequence[1].type = "Move"
    /\ performed_sequence[1].slots = {1, 2}
    /\ DOMAIN touch_down_state = {1, 2}
    /\ \A s \in {1, 2} : touch_down_state[s] # initial_touch_down_state[s]
    /\ repeat_mode = RM_Tap
    /\ frames = MaxMoveFrames

-----------------------------------------------------------------------------
(* C19 *)

\* the last step is a Move step before and after the call, and it is the same step
SameTrailingMove ==
    /\ frames' = frames + 1
    /\ Len(performed_sequence') = Len(performed_sequence)
    /\ LastIs(performed_sequence, "Move")
    /\ LastIs(performed_sequence', "Move")
    /\ performed_sequence'[Len(performed_sequence)].direction
         = performed_sequence[Len(performed_sequence)].direction

\* C19: while a Move step stays the last step, its distance after a frame is
\* >= its distance at the end of the previous frame.
C19_TrailingDistanceMonotonic ==
    [][SameTrailingMove =>
         ~RatLess(performed_sequence'[Len(performed_sequence)].distance,
                  performed_sequence[Len(performed_sequence)].distance)]_vars

-----------------------------------------------------------------------------
(* C20 *)

\* C20: after every update_state call every slot keyed in touch_down_state and
\* in initial_touch_down_state is a slot of previous_state.
C20_ReferenceSlotsArePresent ==
    ~panicked =>
      /\ DOMAIN touch_down_state \subseteq DOMAIN previous_state
      /\ DOMAIN initial_touch_down_state \subseteq DOMAIN previous_state

-----------------------------------------------------------------------------
(* C21 *)

\* the last matcher invocation of the call
LastInvocation == invocations[Len(invocations)]

\* the mode of the last invocation of the call that ran a command, or the
\* given mode when none did
RECURSIVE ModeAfter(_, _, _)
ModeAfter(mode, invs, i) ==
    IF i > Len(invs) THEN mode
    ELSE ModeAfter(IF invs[i].fired # <<>> THEN invs[i].mode ELSE mode, invs, i + 1)

\* C21: a matcher invocation in which no gesture fires leaves performed_sequence,
\* with the split-off trailing TouchDown and TouchUp steps in their original
\* order, and repeat_mode as they were before it: after a call on a non-empty
\* frame whose last step was a tap-mode invocation that fired nothing, the
\* sequence is the matched part followed by the trailing steps, and repeat_mode
\* is the mode of the last invocation of the call that fired, if any.
C21_NoMatchRestoresSequence ==
    [][(frames' = frames + 1 /\ ~panicked' /\ invocations' # <<>>) =>
         /\ repeat_mode' = ModeAfter(repeat_mode, invocations', 1)
         /\ (LastInvocation'.mode = RM_Tap /\ LastInvocation'.fired = <<>>) =>
              performed_sequence' = LastInvocation'.sequence \o LastInvocation'.trailing]_vars

\* a tap-mode invocation split off a TouchUp and a TouchDown step, fired nothing
\* and the call ended with both steps back at the end of the sequence
C21_Witness ==
    /\ frames > 0
    /\ ~panicked
    /\ invocations # <<>>
    /\ LastInvocation.mode = RM_Tap
    /\ LastInvocation.fired = <<>>
    /\ Len(LastInvocation.trailing) = 2
    /\ LastInvocation.sequence # <<>>
    /\ performed_sequence = LastInvocation.sequence \o LastInvocation.trailing

-----------------------------------------------------------------------------
(* C22 *)

\* update_state was called on an empty frame
EmptyFrameStep == active_window' = active_window /\ frames' = 0

\* update_state was called on a non-empty frame and returned
FrameStep == frames' = frames + 1 /\ ~panicked'

\* C22: on an empty frame the matcher is invoked, once and in mode none, iff
\* repeat_mode is none; otherwise the frame runs no command and only clears
\* repeat_mode. Between two empty frames every invocation is in slide or tap
\* mode, an invocation that fires stores its mode in repeat_mode, and a
\* repeat_mode other than none stays other than none, so after any slide- or
\* tap-mode invocation fired the next empty frame finds repeat_mode set.
C22_EmptyFrameMatchesIffNoRepeat ==
    [][/\ EmptyFrameStep =>
            /\ repeat_mode' = RM_None
            /\ IF repeat_mode = RM_None
               THEN Len(invocations') = 1 /\ invocations'[1].mode = RM_None
               ELSE invocations' = <<>>
       /\ FrameStep =>
            /\ \A i \in 1..Len(invocations') : invocations'[i].mode \in {RM_Slide, RM_Tap}
            /\ (repeat_mode # RM_None \/ \E i \in 1..Len(invocations') : invocations'[i].fired # <<>>) =>
                 /\ repeat_mode' # RM_None
                 /\ repeat_mode' = ModeAfter(repeat_mode, invocations', 1)]_vars

\* a slide-mode invocation fired in an earlier call of the physical gesture and
\* repeat_mode still holds slide when the next frame, possibly empty, arrives
C22_Witness ==
    /\ frames > 1
    /\ ~panicked
    /\ repeat_mode = RM_Slide
    /\ \A i \in 1..Len(invocations) : invocations[i].fired = <<>>

-----------------------------------------------------------------------------
(* C23 *)

\* a call on a frame with more slots than the previous frame, made while
\* performed_sequence holds steps
FingerAdded ==
    /\ FrameStep
    /\ Cardinality(DOMAIN previous_state') > Cardinality(DOMAIN previous_state)
    /\ performed_sequence # <<>>

\* C23: whenever a frame has more slots than the previous frame and
\* performed_sequence is non-empty, a TouchDown is produced and the matcher is
\* invoked in tap mode in that frame, whether or not a TouchUp precedes the
\* TouchDown.
C23_TouchDownInvokesTapMatcher ==
    [][FingerAdded =>
         \E i \in 1..Len(invocations') :
           /\ invocations'[i].mode = RM_Tap
           /\ LastIs(invocations'[i].trailing, "TouchDown")]_vars

-----------------------------------------------------------------------------
(* C24 *)

\* some fingers of the previous frame, not all, are gone from the frame
PartialLift ==
    /\ FrameStep
    /\ DOMAIN previous_state' \subseteq DOMAIN previous_state
    /\ DOMAIN previous_state' # DOMAIN previous_state
    /\ DOMAIN touch_down_state = DOMAIN previous_state

\* the number of TouchUp steps of a sequence
TouchUps(seq) == Cardinality({ i \in 1..Len(seq) : seq[i].type = "TouchUp" })

\* C24: while repeat_mode is slide or tap, lifting some but not all fingers
\* appends no TouchUp step to performed_sequence and does not re-seat
\* touch_down_state; a TouchUp step is appended on a partial lift only when
\* repeat_mode is none.
C24_NoTouchUpUnderRepeat ==
    [][(PartialLift /\ repeat_mode # RM_None) =>
         /\ TouchUps(performed_sequence') <= TouchUps(performed_sequence)
         /\ \A s \in DOMAIN previous_state' :
              previous_state'[s] = previous_state[s] => touch_down_state'[s] = touch_down_state[s]]_vars

-----------------------------------------------------------------------------
(* C25 *)

\* a call on a frame of the single finger s appended a Move step for it
MovePushed(s) ==
    /\ FrameStep
    /\ DOMAIN previous_state = {s}
    /\ DOMAIN previous_state' = {s}
    /\ Len(performed_sequence') = Len(performed_sequence) + 1
    /\ LastIs(performed_sequence', "Move")

\* C25: the distance recorded in a Move step is the displacement along the axis
\* of the step measured from the position at the start of the step (the
\* reference position re-seated when the previous step ended), normalized by
\* the touchpad dimension.
C25_DistanceFromStepStart ==
    [][\A s \in Slots :
         MovePushed(s) =>
           LET step == performed_sequence'[Len(performed_sequence')]
               moved == PositionDistance(previous_state'[s], touch_down_state[s])
           IN step.distance = Rat(AxisDistance(moved, step.direction), AxisSize(step.direction))]_vars

-----------------------------------------------------------------------------
(* C26 *)

\* the sum of the positions of a state
RECURSIVE SumOf(_, _)
SumOf(state, slots) ==
    IF slots = {} THEN Pos(0, 0)
    ELSE LET s == CHOOSE t \in slots : TRUE
             rest == SumOf(state, slots \ {s})
         IN Pos(rest.x + state[s].x, rest.y + state[s].y)

\* the centroid of state lies outside the move-threshold ellipse centred on the
\* centroid of start (both over the same slots): the per-position test, with
\* both sides multiplied by the square of the number of slots
CentroidOutside(state, start) ==
    LET n == Cardinality(DOMAIN state)
        c == SumOf(state, DOMAIN state)
        h == SumOf(start, DOMAIN start)
        dx == c.x - h.x
        dy == c.y - h.y
        tx == move_threshold_units.x
        ty == move_threshold_units.y
    IN dx * dx * ty * ty + dy * dy * tx * tx > n * n * tx * tx * ty * ty

\* a call on a frame of the fingers of the previous frame appended a Move step
\* or extended the last one
MoveProduced ==
    /\ FrameStep
    /\ DOMAIN previous_state' = DOMAIN previous_state
    /\ DOMAIN touch_down_state = DOMAIN previous_state
    /\ LastIs(performed_sequence', "Move")
    /\ performed_sequence' # performed_sequence

\* C26: a Move step is appended or extended in a frame only if the centroid of
\* the frame's positions lies outside the move-threshold ellipse centred on the
\* centroid of touch_down_state.
C26_MoveOnlyWhenCentroidLeaves ==
    [][MoveProduced => CentroidOutside(previous_state', touch_down_state)]_vars

-----------------------------------------------------------------------------
(* C27 *)

\* a distance of d device units is within threshold * size of a border
WithinBand(d, size) ==
    d * config.options.edge.threshold.d <= config.options.edge.threshold.n * size

\* the edge the claim attributes to a sample: Left and Right before Top and Bottom
ExpectedEdge(pos) ==
    IF WithinBand(pos.x, touchpad_size.x) THEN "Left"
    ELSE IF WithinBand(touchpad_size.x - pos.x, touchpad_size.x) THEN "Right"
    ELSE IF WithinBand(pos.y, touchpad_size.y) THEN "Top"
    ELSE IF WithinBand(touchpad_size.y - pos.y, touchpad_size.y) THEN "Bottom"
    ELSE "None"

\* C27: the edge test returns an edge iff the sample lies within
\* edge.threshold * touchpad_size of a border, a sample at exactly the threshold
\* distance counting as on-edge; Left and Right are tested before Top and
\* Bottom, so a corner sample is attributed to Left or Right. Observed on the
\* first frame of a finger: the edge move step it starts names that edge.
C27_EdgeTest ==
    (frames = 1 /\ DOMAIN previous_state = {1}) =>
      /\ is_at_edge(previous_state[1]) = ExpectedEdge(previous_state[1])
      /\ performed_sequence =
           IF ExpectedEdge(previous_state[1]) = "None" THEN <<>>
           ELSE <<PMoveEdge({1}, ExpectedEdge(previous_state[1]), "None")>>

\* a finger landed in a corner, at exactly the threshold distance from the left
\* border, and started an edge move from the Left edge
C27_Witness ==
    /\ frames = 1
    /\ DOMAIN previous_state = {1}
    /\ previous_state[1].x > 0
    /\ previous_state[1].x * config.options.edge.threshold.d
         = config.options.edge.threshold.n * touchpad_size.x
    /\ WithinBand(previous_state[1].y, touchpad_size.y)
    /\ performed_sequence = <<PMoveEdge({1}, "Left", "None")>>

-----------------------------------------------------------------------------
(* C28 *)

\* the direction the claim gives to the deltas dx, dy: |dx / Tx| > |dy / Ty| is
\* horizontal, everything else, ties included, is vertical
ClaimedDirection(dx, dy) ==
    IF RatLess(Rat(Abs(dy), move_threshold_units.y), Rat(Abs(dx), move_threshold_units.x))
    THEN (IF dx >= 0 THEN "Right" ELSE "Left")
    ELSE (IF dy < 0 THEN "Up" ELSE "Down")

\* one finger left the ellipse around the position its step started from
SlidOutside ==
    /\ frames' = frames + 1
    /\ ~panicked'
    /\ DOMAIN previous_state' = {1}
    /\ 1 \in DOMAIN touch_down_state
    /\ point_outside_of_ellipse(previous_state'[1].x, previous_state'[1].y,
                                touch_down_state[1].x, touch_down_state[1].y, FALSE)

\* C28: the direction of a finger that left its ellipse is found by comparing
\* the deltas divided by the semi-axes: a larger horizontal share gives Right
\* for dx >= 0 and Left otherwise, anything else gives Up for dy < 0 and Down
\* otherwise, ties going to the vertical axis; the result is never None.
C28_DirectionByNormalizedDeltas ==
    [][SlidOutside =>
         /\ direction' = ClaimedDirection(previous_state'[1].x - touch_down_state[1].x,
                                          previous_state'[1].y - touch_down_state[1].y)
         /\ direction' # "None"
         /\ performed_sequence' # <<>>
         /\ performed_sequence'[Len(performed_sequence')].type = "Move"
         /\ performed_sequence'[Len(performed_sequence')].direction = direction']_vars

\* on the wide touchpad (semi-axes 2 and 1) a finger moved by (2, 1): a tie of
\* the normalized deltas, resolved to Down although dx is the larger delta
C28_Witness ==
    /\ frames = 2
    /\ ~panicked
    /\ move_threshold_units = Pos(2, 1)
    /\ DOMAIN previous_state = {1}
    /\ 1 \in DOMAIN initial_touch_down_state
    /\ previous_state[1].x - initial_touch_down_state[1].x = 2
    /\ previous_state[1].y - initial_touch_down_state[1].y = 1
    /\ direction = "Down"

-----------------------------------------------------------------------------
(* C29 *)

\* the number of edge move steps of a sequence
EdgeMoveSteps(seq) == Cardinality({ i \in 1..Len(seq) : seq[i].type = "MoveEdge" })

\* C29: an edge move step is appended to performed_sequence only when the
\* sequence is empty, so it is only ever the first step; a contact that lands
\* at an edge after the gesture has produced steps never appends one.
C29_EdgeMoveOnlyFirst ==
    [][(frames' = frames + 1 /\ ~panicked'
        /\ EdgeMoveSteps(performed_sequence') > EdgeMoveSteps(performed_sequence))
       => performed_sequence = <<>>]_vars

-----------------------------------------------------------------------------
(* C30 *)

\* C30: after every update_state call on a non-empty frame,
\* slots_outside_ellipse holds slots of that frame only: a lifted slot never
\* stays in it.
C30_OutsideSlotsAreInFrame ==
    (frames > 0 /\ ~panicked) => slots_outside_ellipse \subseteq DOMAIN previous_state

-----------------------------------------------------------------------------
(* C31 *)

\* C31: update_state never fails on the tap-repeat check: a frame with more
\* slots than the previous one holds a slot absent from previous_state, and
\* TouchDown is never the first step of performed_sequence, so the last two
\* steps exist whenever they are inspected.
C31_TapCheckNeverPanics ==
    /\ ~panicked
    /\ performed_sequence # <<>> => performed_sequence[1].type # "TouchDown"


\* a finger touched down again after a lift that opened the sequence: the last
\* two steps inspected are the only two
C31_Witness ==
    /\ ~panicked
    /\ frames > 0
    /\ Cardinality(DOMAIN previous_state) = 2
    /\ Len(performed_sequence) = 2
    /\ performed_sequence[1].type = "TouchUp"
    /\ performed_sequence[2].type = "TouchDown"

-----------------------------------------------------------------------------
(* C32 *)

\* the slots of the frame that the previous frame did not hold
AddedSlots == (DOMAIN previous_state') \ (DOMAIN previous_state)

\* fingers were added to the ones already down, after the gesture produced steps
FingersAdded ==
    /\ FrameStep
    /\ performed_sequence # <<>>
    /\ DOMAIN previous_state \subseteq DOMAIN previous_state'
    /\ AddedSlots # {}

\* the TouchDown steps at the end of the sequence after the call, or at the end
\* of the trailing steps a firing tap-mode invocation split off
TouchDownsOfFrame ==
    { performed_sequence'[i] : i \in { j \in {Len(performed_sequence')} :
                                         j > 0 /\ performed_sequence'[j].type = "TouchDown" } }
    \cup { invocations'[i].trailing[Len(invocations'[i].trailing)] :
             i \in { j \in 1..Len(invocations') : LastIs(invocations'[j].trailing, "TouchDown") } }

\* C32: when a frame adds k >= 1 slots and performed_sequence is non-empty, the
\* TouchDown step produced or extended in that frame gains all k added slots.
C32_TouchDownGainsAddedSlots ==
    [][FingersAdded => \E step \in TouchDownsOfFrame : AddedSlots \subseteq step.slots]_vars

-----------------------------------------------------------------------------
(* C33 *)

\* the slots that have a tracking id and received both an X and a Y position
\* since that id was assigned
CompleteContacts == contacts.ids \cap contacts.xs \cap contacts.ys

\* main's state map holds the contacts, with the positions each received
StateTracksContacts ==
    /\ DOMAIN slot_state = contacts.ids
    /\ \A s \in DOMAIN slot_state :
         /\ slot_state[s].x.some <=> s \in contacts.xs
         /\ slot_state[s].y.some <=> s \in contacts.ys

\* a step that leaves the event state alone: update_state got a frame
FramePassed ==
    /\ slot_state' = slot_state
    /\ current_slot' = current_slot
    /\ contacts' = contacts
    /\ ~panicked'

\* C33: each frame the event loop passes to update_state on a synchronization
\* event holds exactly the slots that have a tracking id and received both an X
\* and a Y position since that id was assigned; a released slot is absent until
\* a new id is assigned, and position events for a slot without tracking id
\* change nothing.
C33_FrameHoldsCompleteContacts ==
    [][/\ StateTracksContacts'
       /\ FramePassed =>
            /\ DOMAIN previous_state' = CompleteContacts
            /\ \A s \in CompleteContacts :
                 previous_state'[s] = Pos(slot_state[s].x.v, slot_state[s].y.v)]_vars

\* a frame with the contact of slot 0 alone was passed while slot 1 has a
\* tracking id and an X position, but no Y position yet
C33_Witness ==
    /\ ~panicked
    /\ frames > 0
    /\ DOMAIN previous_state = {0}
    /\ CompleteContacts = {0}
    /\ 1 \in contacts.ids
    /\ 1 \in contacts.xs
    /\ 1 \notin contacts.ys
    /\ 1 \in DOMAIN slot_state

-----------------------------------------------------------------------------
(* C34 *)

====
